---- MODULE Spec2Model ----
(***************************************************************************)
(* Md2Option (md2 select/option widget): selection, activation, disabling, *)
(* keyboard handling, unique ids and selection-change events.              *)
(***************************************************************************)
EXTENDS Integers, Sequences, FiniteSets, TLC

\* Largest number of Md2Option instances constructed in one run.
MaxOptions == 2

\* Key codes imported from core/keyboard/keycodes.
ENTER == 13
SPACE == 32
\* Key codes delivered to the keydown listener (ENTER, SPACE, TAB, A).
KeyCodes == {ENTER, SPACE, 9, 65}

\* The optional Md2Optgroup injected into the constructor.
NoGroup == "null"
Groups == {"optgroup"}

\* Values bound to the `disabled` input (JavaScript values, by their literal).
InputValues == {"true", "false", "''", "'false'", "null"}

VARIABLES
    _uniqueIdCounter,   \* module-level id counter
    options,            \* sequence of the Md2Option instances, in creation order
    groupDisabled,      \* Md2Optgroup.disabled of each group
    emitted,            \* events delivered by the running handler, in order
    last                \* the call that has just run: name, target, key code

vars == <<_uniqueIdCounter, options, groupDisabled, emitted, last>>

Opts == 1..Len(options)

\* `md2-option-${n}`
_id(n) == "md2-option-" \o ToString(n)

\* coerceBooleanProperty(value): value != null && `${value}` !== 'false'
coerceBooleanProperty(value) ==
    /\ value # "null"
    /\ value \notin {"false", "'false'"}

\* get disabled() reading only the option's own flag.
disabled_ownFlagOnly(i) ==
    options[i]._disabled

\* get disabled() letting an owning group decide alone.
disabled_groupDecides(i) ==
    IF options[i].group # NoGroup
    THEN groupDisabled[options[i].group]
    ELSE options[i]._disabled

\* get disabled()
disabled(i) ==
    \/ (options[i].group # NoGroup /\ groupDisabled[options[i].group])
    \/ options[i]._disabled

\* get selected(), get active(), get id()
selected(i) == options[i]._selected
active(i) == options[i]._active
id(i) == options[i]._id

\* _getTabIndex() reading this._disabled instead of this.disabled.
_getTabIndex_ownFlag(i) == IF options[i]._disabled THEN "-1" ELSE "0"

\* _getTabIndex()
_getTabIndex(i) == IF disabled(i) THEN "-1" ELSE "0"

\* new Md2OptionSelectionChange(source, isUserInput)
Md2OptionSelectionChange(source, isUserInput) ==
    [source |-> source, isUserInput |-> isUserInput]

\* _emitSelectionChangeEvent dropping its argument (isUserInput left at its default).
_emitSelectionChangeEvent_defaultFlag(opts, i, isUserInput) ==
    <<[stream |-> i,
       event |-> Md2OptionSelectionChange(i, FALSE),
       sourceSelected |-> opts[i]._selected]>>

\* this.onSelectionChange.emit(new Md2OptionSelectionChange(this, isUserInput)):
\* the delivery on option i's stream, with what a listener reads from
\* source.selected at that moment (opts is the state at the time of the emit).
_emitSelectionChangeEvent(opts, i, isUserInput) ==
    <<[stream |-> i,
       event |-> Md2OptionSelectionChange(i, isUserInput),
       sourceSelected |-> opts[i]._selected]>>

\* Effect of a method that returns without doing anything.
NoEffect == [options |-> options, emitted |-> <<>>]

\* _selectViaInteraction() guarding on this._disabled instead of this.disabled.
_selectViaInteraction_ownFlagGuard(i) ==
    IF ~options[i]._disabled
    THEN LET o1 == [options EXCEPT ![i]._selected =
                        IF options[i].multiple THEN ~options[i]._selected ELSE TRUE]
         IN [options |-> o1, emitted |-> _emitSelectionChangeEvent(o1, i, TRUE)]
    ELSE NoEffect

\* _selectViaInteraction() toggling in every mode.
_selectViaInteraction_alwaysToggle(i) ==
    IF ~disabled(i)
    THEN LET o1 == [options EXCEPT ![i]._selected = ~options[i]._selected]
         IN [options |-> o1, emitted |-> _emitSelectionChangeEvent(o1, i, TRUE)]
    ELSE NoEffect

\* _selectViaInteraction() forcing true in every mode.
_selectViaInteraction_alwaysTrue(i) ==
    IF ~disabled(i)
    THEN LET o1 == [options EXCEPT ![i]._selected = TRUE]
         IN [options |-> o1, emitted |-> _emitSelectionChangeEvent(o1, i, TRUE)]
    ELSE NoEffect

\* _selectViaInteraction() with the two branches of the ternary swapped.
_selectViaInteraction_swappedModes(i) ==
    IF ~disabled(i)
    THEN LET o1 == [options EXCEPT ![i]._selected =
                        IF options[i].multiple THEN TRUE ELSE ~options[i]._selected]
         IN [options |-> o1, emitted |-> _emitSelectionChangeEvent(o1, i, TRUE)]
    ELSE NoEffect

\* _selectViaInteraction(): the new options and the events emitted.
_selectViaInteraction(i) ==
    IF ~disabled(i)
    THEN LET o1 == [options EXCEPT ![i]._selected =
                        IF options[i].multiple THEN ~options[i]._selected ELSE TRUE]
         IN [options |-> o1, emitted |-> _emitSelectionChangeEvent(o1, i, TRUE)]
    ELSE NoEffect

\* _handleKeydown(event) reacting to ENTER only.
_handleKeydown_enterOnly(i, keyCode) ==
    IF keyCode = ENTER
    THEN _selectViaInteraction(i)
    ELSE NoEffect

\* _handleKeydown(event)
_handleKeydown(i, keyCode) ==
    IF keyCode = ENTER \/ keyCode = SPACE
    THEN _selectViaInteraction(i)
    ELSE NoEffect

Op(name, i, keyCode) == [op |-> name, opt |-> i, keyCode |-> keyCode]
\* No call is running: the event loop is idle.
NoOp == Op("none", 0, 0)
Idle == last = NoOp

Init ==
    /\ _uniqueIdCounter = 0
    /\ options = <<>>
    /\ groupDisabled = [g \in Groups |-> FALSE]
    /\ emitted = <<>>
    /\ last = NoOp

\* Construction reading the counter without incrementing it.
constructor_noIncrement(group) ==
    /\ Idle
    /\ Len(options) < MaxOptions
    /\ options' = Append(options,
                         [_selected |-> FALSE, _active |-> FALSE, _disabled |-> FALSE,
                          _id |-> _id(_uniqueIdCounter), multiple |-> FALSE,
                          group |-> group])
    /\ emitted' = <<>>
    /\ last' = Op("constructor", Len(options) + 1, 0)
    /\ UNCHANGED <<_uniqueIdCounter, groupDisabled>>

\* Field initialisers and constructor of Md2Option.
constructor(group) ==
    /\ Idle
    /\ Len(options) < MaxOptions
    /\ options' = Append(options,
                         [_selected |-> FALSE, _active |-> FALSE, _disabled |-> FALSE,
                          _id |-> _id(_uniqueIdCounter), multiple |-> FALSE,
                          group |-> group])
    /\ _uniqueIdCounter' = _uniqueIdCounter + 1
    /\ emitted' = <<>>
    /\ last' = Op("constructor", Len(options) + 1, 0)
    /\ UNCHANGED groupDisabled

\* select() refusing to act on a disabled option.
select_guarded(i) ==
    /\ Idle
    /\ LET o1 == [options EXCEPT ![i]._selected = TRUE]
       IN IF disabled(i)
          THEN options' = options /\ emitted' = <<>>
          ELSE options' = o1 /\ emitted' = _emitSelectionChangeEvent(o1, i, FALSE)
    /\ last' = Op("select", i, 0)
    /\ UNCHANGED <<_uniqueIdCounter, groupDisabled>>

\* select() written as a toggle.
select_toggle(i) ==
    /\ Idle
    /\ LET o1 == [options EXCEPT ![i]._selected = ~options[i]._selected]
       IN /\ options' = o1
          /\ emitted' = _emitSelectionChangeEvent(o1, i, FALSE)
    /\ last' = Op("select", i, 0)
    /\ UNCHANGED <<_uniqueIdCounter, groupDisabled>>

\* select() clearing every other option, as a single-selection model would.
select_exclusive(i) ==
    /\ Idle
    /\ LET o1 == [j \in Opts |-> [options[j] EXCEPT !._selected = (j = i)]]
       IN /\ options' = o1
          /\ emitted' = _emitSelectionChangeEvent(o1, i, FALSE)
    /\ last' = Op("select", i, 0)
    /\ UNCHANGED <<_uniqueIdCounter, groupDisabled>>

\* select()
select(i) ==
    /\ Idle
    /\ LET o1 == [options EXCEPT ![i]._selected = TRUE]
       IN /\ options' = o1
          /\ emitted' = _emitSelectionChangeEvent(o1, i, FALSE)
    /\ last' = Op("select", i, 0)
    /\ UNCHANGED <<_uniqueIdCounter, groupDisabled>>

\* deselect() emitting only when the value changes.
deselect_onChangeOnly(i) ==
    /\ Idle
    /\ LET o1 == [options EXCEPT ![i]._selected = FALSE]
       IN /\ options' = o1
          /\ emitted' = IF options[i]._selected
                        THEN _emitSelectionChangeEvent(o1, i, FALSE)
                        ELSE <<>>
    /\ last' = Op("deselect", i, 0)
    /\ UNCHANGED <<_uniqueIdCounter, groupDisabled>>

\* deselect() emitting before it assigns.
deselect_emitFirst(i) ==
    /\ Idle
    /\ options' = [options EXCEPT ![i]._selected = FALSE]
    /\ emitted' = _emitSelectionChangeEvent(options, i, FALSE)
    /\ last' = Op("deselect", i, 0)
    /\ UNCHANGED <<_uniqueIdCounter, groupDisabled>>

\* deselect()
deselect(i) ==
    /\ Idle
    /\ LET o1 == [options EXCEPT ![i]._selected = FALSE]
       IN /\ options' = o1
          /\ emitted' = _emitSelectionChangeEvent(o1, i, FALSE)
    /\ last' = Op("deselect", i, 0)
    /\ UNCHANGED <<_uniqueIdCounter, groupDisabled>>

\* setActiveStyles() skipping a disabled option.
setActiveStyles_skipDisabled(i) ==
    /\ Idle
    /\ options' = IF disabled(i) THEN options ELSE [options EXCEPT ![i]._active = TRUE]
    /\ emitted' = <<>>
    /\ last' = Op("setActiveStyles", i, 0)
    /\ UNCHANGED <<_uniqueIdCounter, groupDisabled>>

\* setActiveStyles()
setActiveStyles(i) ==
    /\ Idle
    /\ options' = [options EXCEPT ![i]._active = TRUE]
    /\ emitted' = <<>>
    /\ last' = Op("setActiveStyles", i, 0)
    /\ UNCHANGED <<_uniqueIdCounter, groupDisabled>>

\* setInactiveStyles()
setInactiveStyles(i) ==
    /\ Idle
    /\ options' = [options EXCEPT ![i]._active = FALSE]
    /\ emitted' = <<>>
    /\ last' = Op("setInactiveStyles", i, 0)
    /\ UNCHANGED <<_uniqueIdCounter, groupDisabled>>

\* set disabled(value) deselecting the option it disables.
set_disabled_deselects(i, value) ==
    /\ Idle
    /\ options' = [options EXCEPT ![i]._disabled = coerceBooleanProperty(value),
                                  ![i]._selected = options[i]._selected
                                                   /\ ~coerceBooleanProperty(value)]
    /\ emitted' = <<>>
    /\ last' = Op("set_disabled", i, 0)
    /\ UNCHANGED <<_uniqueIdCounter, groupDisabled>>

\* set disabled(value)
set_disabled(i, value) ==
    /\ Idle
    /\ options' = [options EXCEPT ![i]._disabled = coerceBooleanProperty(value)]
    /\ emitted' = <<>>
    /\ last' = Op("set_disabled", i, 0)
    /\ UNCHANGED <<_uniqueIdCounter, groupDisabled>>

\* The wrapping select assigns the public field `multiple`.
set_multiple(i, value) ==
    /\ Idle
    /\ options' = [options EXCEPT ![i].multiple = value]
    /\ emitted' = <<>>
    /\ last' = Op("set_multiple", i, 0)
    /\ UNCHANGED <<_uniqueIdCounter, groupDisabled>>

\* Md2Optgroup.disabled is assigned.
set_group_disabled(g, value) ==
    /\ Idle
    /\ groupDisabled' = [groupDisabled EXCEPT ![g] = value]
    /\ emitted' = <<>>
    /\ last' = Op("set_group_disabled", 0, 0)
    /\ UNCHANGED <<_uniqueIdCounter, options>>

\* host '(click)': '_selectViaInteraction()'
click(i) ==
    /\ Idle
    /\ options' = _selectViaInteraction(i).options
    /\ emitted' = _selectViaInteraction(i).emitted
    /\ last' = Op("click", i, 0)
    /\ UNCHANGED <<_uniqueIdCounter, groupDisabled>>

\* host '(keydown)': '_handleKeydown($event)'
keydown(i, keyCode) ==
    /\ Idle
    /\ options' = _handleKeydown(i, keyCode).options
    /\ emitted' = _handleKeydown(i, keyCode).emitted
    /\ last' = Op("keydown", i, keyCode)
    /\ UNCHANGED <<_uniqueIdCounter, groupDisabled>>

\* The handler has returned and its events are delivered: back to the event loop.
returnToEventLoop ==
    /\ ~Idle
    /\ last' = NoOp
    /\ emitted' = <<>>
    /\ UNCHANGED <<_uniqueIdCounter, options, groupDisabled>>

Next ==
    \/ \E g \in Groups \cup {NoGroup} : constructor(g)
    \/ \E i \in Opts : select(i)
    \/ \E i \in Opts : deselect(i)
    \/ \E i \in Opts : setActiveStyles(i)
    \/ \E i \in Opts : setInactiveStyles(i)
    \/ \E i \in Opts, v \in InputValues : set_disabled(i, v)
    \/ \E i \in Opts, v \in BOOLEAN : set_multiple(i, v)
    \/ \E g \in Groups, v \in BOOLEAN : set_group_disabled(g, v)
    \/ \E i \in Opts : click(i)
    \/ \E i \in Opts, k \in KeyCodes : keydown(i, k)
    \/ returnToEventLoop

Spec == Init /\ [][Next]_vars
----------------------------------------------------------------------------
\* Shorthands used by the properties.

SelectKeys == {ENTER, SPACE}
\* The call c is a click, or a keydown of Enter or Space.
IsInteraction(c) ==
    \/ c.op = "click"
    \/ (c.op = "keydown" /\ c.keyCode \in SelectKeys)
\* The call c is select() or deselect().
IsProgrammatic(c) == c.op \in {"select", "deselect"}
\* The decimal counter value an id string was built from.
IsOptionId(s) == \E n \in 0..(MaxOptions + 1) : s = "md2-option-" \o ToString(n)
IdNumber(s) == CHOOSE n \in 0..(MaxOptions + 1) : s = "md2-option-" \o ToString(n)
InGroup(i) == options[i].group # NoGroup
GroupIsDisabled(i) == InGroup(i) /\ groupDisabled[options[i].group]
\* Exactly one event, delivered on option i's stream with option i as source.
OneEventOf(es, i) == Len(es) = 1 /\ es[1].stream = i /\ es[1].event.source = i

\* C1: a click, or a keydown of Enter or Space, on an option whose disabled
\* getter reads true (own flag or group) leaves selected unchanged and emits
\* no event.
C1_DisabledInteractionInert ==
    [][LET i == last'.opt
       IN (IsInteraction(last') /\ disabled(i))
          => (options'[i]._selected = options[i]._selected /\ emitted' = <<>>)]_vars

\* A click has just hit a selected multiple-mode option that is disabled only
\* through its group.
C1_Witness ==
    /\ last.op = "click"
    /\ GroupIsDisabled(last.opt)
    /\ ~options[last.opt]._disabled
    /\ options[last.opt].multiple
    /\ options[last.opt]._selected
    /\ emitted = <<>>

\* C2: the disabled getter reads true whenever the owning group's disabled is
\* true, whatever the option's own flag.
C2_GroupDisabledImpliesDisabled ==
    \A i \in Opts : GroupIsDisabled(i) => disabled(i)

\* Two options of a disabled group, one with its own flag set and one without.
C2_Witness ==
    \E i, j \in Opts :
        /\ GroupIsDisabled(i) /\ ~options[i]._disabled
        /\ GroupIsDisabled(j) /\ options[j]._disabled

\* C3: a click on a non-disabled option in non-multiple mode results in
\* selected = true, whatever it was before.
C3_ClickSingleSelects ==
    [][LET i == last'.opt
       IN (last'.op = "click" /\ ~disabled(i) /\ ~options[i].multiple)
          => options'[i]._selected = TRUE]_vars

\* A non-disabled, non-multiple option of an enabled group has just been clicked.
C3_Witness ==
    /\ last.op = "click"
    /\ InGroup(last.opt)
    /\ ~disabled(last.opt)
    /\ ~options[last.opt].multiple
    /\ options[last.opt]._selected
    /\ OneEventOf(emitted, last.opt)

\* C4: a click on a non-disabled option in multiple mode negates selected.
C4_ClickMultipleFlips ==
    [][LET i == last'.opt
       IN (last'.op = "click" /\ ~disabled(i) /\ options[i].multiple)
          => options'[i]._selected = ~options[i]._selected]_vars

\* A click has just toggled a multiple-mode option off.
C4_Witness ==
    /\ last.op = "click"
    /\ ~disabled(last.opt)
    /\ options[last.opt].multiple
    /\ ~options[last.opt]._selected
    /\ OneEventOf(emitted, last.opt)

\* C5: every event emitted by a click or an Enter/Space keydown has
\* isUserInput = true, every event emitted by select() or deselect() has
\* isUserInput = false, and no event comes from any other call.
C5_IsUserInputMatchesPath ==
    \A k \in 1..Len(emitted) :
        /\ IsInteraction(last) \/ IsProgrammatic(last)
        /\ emitted[k].event.isUserInput = IsInteraction(last)

\* With two options alive, a keydown of SPACE on the second one has emitted a
\* user event.
C5_Witness ==
    /\ Len(options) = 2
    /\ last = Op("keydown", 2, SPACE)
    /\ Len(emitted) = 1
    /\ emitted[1].event.isUserInput

\* C6: ids are pairwise distinct and built from strictly increasing counter
\* values in creation order, and no step changes the id of an option.
C6_UniqueIncreasingIds ==
    /\ [](\A i, j \in Opts :
            /\ IsOptionId(id(i))
            /\ (i < j => (id(i) # id(j) /\ IdNumber(id(i)) < IdNumber(id(j)))))
    /\ [][\A i \in Opts : options'[i]._id = options[i]._id]_vars

\* Two options exist and the first has been selected since the second was made.
C6_Witness ==
    /\ Len(options) = 2
    /\ id(1) # id(2)
    /\ last.op \in {"select", "click"}
    /\ last.opt = 1

\* C7: after select() selected is true and after deselect() it is false,
\* whatever the option's state (disabled or not, multiple or not); the call
\* emits an event with isUserInput = false.
C7_ProgrammaticUnconditional ==
    IsProgrammatic(last)
    => /\ options[last.opt]._selected = (last.op = "select")
       /\ Len(emitted) = 1
       /\ emitted[1].event.isUserInput = FALSE

\* select() has just selected a disabled option.
C7_Witness ==
    /\ last.op = "select"
    /\ disabled(last.opt)
    /\ options[last.opt]._selected
    /\ OneEventOf(emitted, last.opt)

\* C8: select(), deselect() and a click or Enter/Space keydown on a
\* non-disabled option each emit exactly one event, on the stream of the
\* option acted on and with that option as source; any other step emits none.
C8_OneEventPerSelection ==
    [][LET i == last'.opt
       IN IF IsProgrammatic(last') \/ (IsInteraction(last') /\ ~disabled(i))
          THEN OneEventOf(emitted', i)
          ELSE emitted' = <<>>]_vars

\* deselect() on the second option has emitted its one event.
C8_Witness ==
    /\ Len(options) = 2
    /\ last.op = "deselect"
    /\ last.opt = 2
    /\ OneEventOf(emitted, 2)

\* C9 as stated: every emitted event accompanies a change of the value of
\* selected of its source.
C9_EventImpliesChange ==
    [][\A k \in 1..Len(emitted') :
          LET i == emitted'[k].event.source
          IN options'[i]._selected # options[i]._selected]_vars

\* C9 amended: every emitted event comes from select(), deselect() or a user
\* interaction on its source, and selected changes in that step except when
\* select() hits a selected option, deselect() a deselected one, or a
\* non-multiple interaction a selected one.
C9_EventChangeCases ==
    [][\A k \in 1..Len(emitted') :
          LET i == emitted'[k].event.source
              unchangedCase ==
                  \/ (last'.op = "select" /\ options[i]._selected)
                  \/ (last'.op = "deselect" /\ ~options[i]._selected)
                  \/ (IsInteraction(last') /\ ~options[i].multiple /\ options[i]._selected)
          IN /\ i = last'.opt
             /\ IsProgrammatic(last') \/ IsInteraction(last')
             /\ (options'[i]._selected = options[i]._selected) <=> unchangedCase]_vars

\* select() has emitted on a selected option.
C9_Witness ==
    /\ last.op = "select"
    /\ ~options[last.opt].multiple
    /\ options[last.opt]._selected
    /\ Len(emitted) = 1
    /\ emitted[1].event.source = last.opt

\* C10: a keydown of ENTER or SPACE has the effect of a click in the same
\* state on options and events; a keydown of any other key changes no option
\* field, no group and emits nothing.
C10_KeydownLikeClick ==
    [][LET i == last'.opt
       IN last'.op = "keydown"
          => IF last'.keyCode \in SelectKeys
             THEN /\ options' = _selectViaInteraction(i).options
                  /\ emitted' = _selectViaInteraction(i).emitted
                  /\ groupDisabled' = groupDisabled
             ELSE /\ options' = options
                  /\ groupDisabled' = groupDisabled
                  /\ emitted' = <<>>]_vars

\* A keydown of SPACE has toggled a multiple-mode option off.
C10_Witness ==
    /\ last.op = "keydown"
    /\ last.keyCode = SPACE
    /\ options[last.opt].multiple
    /\ ~options[last.opt]._selected
    /\ OneEventOf(emitted, last.opt)
    /\ emitted[1].event.isUserInput

\* C11: the disabled getter is true exactly when the option's own flag is
\* true or it has a group whose disabled is true; without a group it reads
\* the own flag; and when a group's disabled goes from true to false every
\* option keeps its own flag and its getter reads that flag again.
C11_DisabledIsDerived ==
    /\ [](\A i \in Opts :
            /\ disabled(i) <=> (options[i]._disabled \/ GroupIsDisabled(i))
            /\ ~InGroup(i) => (disabled(i) <=> options[i]._disabled))
    /\ [][\A g \in Groups :
            (last'.op = "set_group_disabled" /\ groupDisabled[g] /\ ~groupDisabled'[g])
            => \A i \in Opts :
                   /\ options'[i]._disabled = options[i]._disabled
                   /\ options[i].group = g => (disabled(i)' <=> options[i]._disabled)]_vars

\* A group has just been enabled; one of its options still has its own flag
\* set and reads disabled, another has it clear and reads enabled.
C11_Witness ==
    /\ last.op = "set_group_disabled"
    /\ \E i, j \in Opts :
          /\ InGroup(i) /\ ~groupDisabled[options[i].group]
          /\ options[i]._disabled /\ disabled(i)
          /\ options[j].group = options[i].group
          /\ ~options[j]._disabled /\ ~disabled(j)

\* C12: _getTabIndex() returns '-1' exactly when the option is disabled (own
\* flag or group) and '0' otherwise.
C12_TabIndexFollowsDisabled ==
    \A i \in Opts :
        _getTabIndex(i) = IF options[i]._disabled \/ GroupIsDisabled(i) THEN "-1" ELSE "0"

\* An option disabled only through its group is no tab stop, next to an
\* enabled one that is.
C12_Witness ==
    \E i, j \in Opts :
        /\ GroupIsDisabled(i) /\ ~options[i]._disabled /\ _getTabIndex(i) = "-1"
        /\ ~InGroup(j) /\ ~options[j]._disabled /\ _getTabIndex(j) = "0"

\* C13: when an event is delivered, source.selected already holds the value
\* the call assigns: true for select(), false for deselect(), the toggled
\* value for an interaction in multiple mode and true in non-multiple mode.
C13_StateUpdatedBeforeEmit ==
    [][\A k \in 1..Len(emitted') :
          LET i == emitted'[k].event.source
              seen == emitted'[k].sourceSelected
          IN /\ seen = options'[i]._selected
             /\ last'.op = "select" => seen = TRUE
             /\ last'.op = "deselect" => seen = FALSE
             /\ IsInteraction(last')
                => seen = (IF options[i].multiple THEN ~options[i]._selected ELSE TRUE)]_vars

\* The listener of a deselect() on a multiple-mode option reads selected = false
\* during the delivery.
C13_Witness ==
    /\ last.op = "deselect"
    /\ options[last.opt].multiple
    /\ OneEventOf(emitted, last.opt)
    /\ emitted[1].sourceSelected = FALSE
    /\ ~options[last.opt]._selected

\* C14: a selected option in non-multiple mode stays selected through every
\* step other than a deselect() on it: clicks, keydowns, changes of its
\* disabled flag, of its group, of active and of multiple keep selected true.
C14_SingleModeNeverDeselectsByUser ==
    [][\A i \in Opts :
          (options[i]._selected /\ ~options[i].multiple /\ last' # Op("deselect", i, 0))
          => options'[i]._selected]_vars

\* A keydown of ENTER has hit an enabled, active, selected option in
\* non-multiple mode, which is still selected.
C14_Witness ==
    /\ last = Op("keydown", last.opt, ENTER)
    /\ ~options[last.opt].multiple
    /\ ~disabled(last.opt)
    /\ options[last.opt]._active
    /\ options[last.opt]._selected
    /\ OneEventOf(emitted, last.opt)

\* C15: setActiveStyles() sets active to true and setInactiveStyles() sets it
\* to false, on a disabled option too, changing nothing else and emitting no
\* event; select(), deselect(), clicks and keydowns change no option's active.
C15_ActiveIndependentOfSelected ==
    [][LET i == last'.opt
       IN /\ last'.op \in {"setActiveStyles", "setInactiveStyles"}
             => /\ options' = [options EXCEPT
                                  ![i]._active = (last'.op = "setActiveStyles")]
                /\ emitted' = <<>>
                /\ UNCHANGED <<_uniqueIdCounter, groupDisabled>>
          /\ last'.op \in {"select", "deselect", "click", "keydown"}
             => \A j \in Opts : options'[j]._active = options[j]._active]_vars

\* setActiveStyles() has made a disabled, deselected option active.
C15_Witness ==
    /\ last.op = "setActiveStyles"
    /\ disabled(last.opt)
    /\ options[last.opt]._active
    /\ ~options[last.opt]._selected
    /\ emitted = <<>>

\* C16: setting an option's disabled input or a group's disabled leaves every
\* option's selected and active unchanged and emits no event; and a selected
\* option that reads disabled stays selected through every step other than a
\* deselect() on it.
C16_DisablingKeepsSelection ==
    [][/\ last'.op \in {"set_disabled", "set_group_disabled"}
          => /\ \A j \in Opts : /\ options'[j]._selected = options[j]._selected
                                /\ options'[j]._active = options[j]._active
             /\ emitted' = <<>>
       /\ \A i \in Opts :
             (options[i]._selected /\ disabled(i) /\ last' # Op("deselect", i, 0))
             => options'[i]._selected]_vars

\* The disabled input of a selected, active option has just been set: the
\* option is disabled and still selected and active.
C16_Witness ==
    /\ last.op = "set_disabled"
    /\ options[last.opt]._disabled
    /\ options[last.opt]._selected
    /\ options[last.opt]._active
    /\ emitted = <<>>

\* C17: a call on one option (select, deselect, click, keydown,
\* setActiveStyles, setInactiveStyles, its disabled or multiple being set)
\* leaves every field of every other option, the id counter and the groups
\* unchanged and delivers events on no other option's stream; constructing an
\* option leaves the existing ones unchanged.
C17_OptionsIsolated ==
    [][LET i == last'.opt
       IN /\ last'.op \in {"select", "deselect", "click", "keydown", "setActiveStyles",
                           "setInactiveStyles", "set_disabled", "set_multiple"}
             => /\ \A j \in Opts \ {i} : options'[j] = options[j]
                /\ options'[i]._id = options[i]._id
                /\ Len(options') = Len(options)
                /\ \A k \in 1..Len(emitted') : emitted'[k].stream = i
                /\ UNCHANGED <<_uniqueIdCounter, groupDisabled>>
          /\ last'.op = "constructor"
             => \A j \in Opts : options'[j] = options[j]]_vars

\* deselect() has run on the second of two options of one group; the first is
\* still selected and active.
C17_Witness ==
    /\ Len(options) = 2
    /\ last = Op("deselect", 2, 0)
    /\ InGroup(1) /\ options[2].group = options[1].group
    /\ options[1]._selected /\ options[1]._active
    /\ ~options[2]._selected
    /\ OneEventOf(emitted, 2)
====
